---- MODULE Spec2Model ----
(***************************************************************************)
(* Model of the WhoFi CSI processing server, src/docker/csi_processor.py.  *)
(* One CSIProcessor object: its MQTT callbacks (on_connect, on_message),   *)
(* the per-node measurement buffers, the RSSI path-loss distance model,    *)
(* the three-anchor trilateration and the publication of the result.       *)
(*                                                                         *)
(* Lengths are integers in centimetres; a float that numpy computes is     *)
(* either a rational [k |-> "fin", num, den], or one of the IEEE specials  *)
(* "nan", "inf", "ninf" (numpy scalar arithmetic does not raise on a zero  *)
(* divisor, it warns and returns inf or nan).                              *)
(***************************************************************************)
EXTENDS Integers, Sequences, FiniteSets, TLC

(***************************************************************************)
(* Bounds of the model.                                                    *)
(***************************************************************************)
\* events (messages and reconnects) handled in one behaviour of Spec
MaxEvents == 4
\* of these, data messages that are malformed
MaxMalformed == 1
\* of these, events that are no data message (stats, other topics, reconnects)
MaxControl == 1
\* data messages per node in one behaviour of SpecBuffer (must exceed maxlen)
MaxAppends == 102
\* data messages of the busy node in one behaviour of SpecWindow (must exceed
\* the recent window)
MaxWindow == 11
\* data messages per node in one behaviour of SpecEndToEnd
MaxSamples == 10
\* data messages per node in one behaviour of SpecPublish
MaxReports == 2

(***************************************************************************)
(* Program constants.                                                      *)
(***************************************************************************)
\* deque(maxlen=100)
maxlen == 100
\* list(buffer)[-10:]
RecentWindow == 10
\* A = -30, reference RSSI at 1 metre
A_ref == 0 - 30
\* n = 2.0, path loss exponent
n_exp == 2
\* len(self.csi_buffer) >= 3, len(distances) >= 3, [:3]
Quorum == 3
\* len(topic_parts) >= 4
MinTopicParts == 4

(***************************************************************************)
(* The nodes seen on the transport and the static configuration.           *)
(***************************************************************************)
Nodes == {"n1", "n2", "n3", "n4", "n5"}

VARIABLES
    config,         \* which config.yaml __init__ loaded (fixed for the process)
    publish_fault   \* how mqtt_client.publish behaves when it is next called

\* The config['node_positions'] of three installations: node -> [x, y] in
\* centimetres.  "site": n1, n2, n4 are collinear; "triangle": an equilateral
\* triangle of side 10 m; "symmetric": an isosceles triangle.  n5 (and n4
\* outside "site") reports but has no configured position.
Configs ==
    [site      |-> [n1 |-> <<0, 0>>, n2 |-> <<400, 0>>, n3 |-> <<200, 400>>,
                    n4 |-> <<200, 0>>],
     triangle  |-> [n1 |-> <<0, 0>>, n2 |-> <<1000, 0>>, n3 |-> <<500, 866>>],
     symmetric |-> [n1 |-> <<0, 0>>, n2 |-> <<1000, 0>>, n3 |-> <<500, 1000>>]]

\* self.node_positions = self.config['node_positions']
node_positions == Configs[config]

Registered == DOMAIN node_positions

(***************************************************************************)
(* JSON values and payloads.                                               *)
(***************************************************************************)
Absent == [tag |-> "absent", v |-> 0]
Null   == [tag |-> "null", v |-> 0]
Num(i) == [tag |-> "num", v |-> i]
Bool(b) == [tag |-> "bool", v |-> IF b THEN 1 ELSE 0]

Fields == {"timestamp", "rssi", "csi_data", "channel", "rate",
           "packets", "enabled", "uptime"}
RequiredData == {"timestamp", "rssi", "channel", "rate"}

EmptyObject == [f \in Fields |-> Absent]

\* msg.payload that json.loads rejects
BadJson == [json |-> "bad", obj |-> EmptyObject]
\* msg.payload that decodes to a JSON value that is not an object
Scalar == [json |-> "scalar", obj |-> EmptyObject]
Object(o) == [json |-> "object", obj |-> o]

DataObject(ts, rssi) ==
    [EmptyObject EXCEPT !["timestamp"] = Num(ts), !["rssi"] = rssi,
                        !["channel"] = Num(6), !["rate"] = Num(11)]

StatsObject(p, e, u) ==
    [EmptyObject EXCEPT !["packets"] = p, !["enabled"] = e, !["uptime"] = u]

(***************************************************************************)
(* Floats.  A coordinate is a rational in centimetres or an IEEE special.  *)
(***************************************************************************)
NaN  == [k |-> "nan", num |-> 0, den |-> 1]
Inf  == [k |-> "inf", num |-> 0, den |-> 1]
NInf == [k |-> "ninf", num |-> 0, den |-> 1]
Fin(num, den) ==
    IF den < 0 THEN [k |-> "fin", num |-> 0 - num, den |-> 0 - den]
               ELSE [k |-> "fin", num |-> num, den |-> den]

\* numpy float64 true division: x / 0 is inf, -inf or nan (RuntimeWarning, no
\* exception); a nan operand gives nan.
np_divide(numNaN, num, den) ==
    IF numNaN THEN NaN
    ELSE IF den = 0
         THEN (IF num = 0 THEN NaN ELSE IF num > 0 THEN Inf ELSE NInf)
         ELSE Fin(num, den)

\* round(x, ndigits): round half to even of a rational to the unit; the
\* specials round to themselves.
round_unit(c) ==
    IF c.k # "fin" THEN c
    ELSE LET q == c.num \div c.den
             r == c.num % c.den
         IN  IF 2 * r < c.den THEN Fin(q, 1)
             ELSE IF 2 * r > c.den THEN Fin(q + 1, 1)
             ELSE IF q % 2 = 0 THEN Fin(q, 1) ELSE Fin(q + 1, 1)

\* x / 100.0
divide_by(c, m) == IF c.k # "fin" THEN c ELSE Fin(c.num, c.den * m)

(***************************************************************************)
(* calculate_position: mean of the recent RSSI values and the path-loss    *)
(* model.                                                                  *)
(***************************************************************************)
RECURSIVE SumRssi(_)
SumRssi(s) == IF s = <<>> THEN 0 ELSE s[1].v + SumRssi(Tail(s))

\* list(buffer): the whole buffer, no slice
Recent_all(buffer) == buffer

\* list(buffer)[-10:]
Recent(buffer) ==
    IF Len(buffer) <= RecentWindow THEN buffer
    ELSE SubSeq(buffer, Len(buffer) - RecentWindow + 1, Len(buffer))

\* recent_rssi = [d['rssi'] for d in list(buffer)[-10:]]
recent_rssi(buffer) == [i \in 1..Len(Recent(buffer)) |-> Recent(buffer)[i].rssi]

\* np.mean(recent_rssi): TypeError when an element is not a number, nan (with
\* a warning) for an empty list, else the arithmetic mean sum/k.
np_mean(rs) ==
    IF \E i \in 1..Len(rs) : rs[i].tag # "num"
    THEN [exc |-> TRUE, nan |-> FALSE, sum |-> 0, k |-> 1]
    ELSE IF Len(rs) = 0
         THEN [exc |-> FALSE, nan |-> TRUE, sum |-> 0, k |-> 1]
         ELSE [exc |-> FALSE, nan |-> FALSE, sum |-> SumRssi(rs), k |-> Len(rs)]

\* 100 * 10^(d/20) for d = 0..19: one decade of 10 ** (dB / (10 * n)), n = 2,
\* in centimetres.
DecadeTable ==
    <<100, 112, 126, 141, 158, 178, 200, 224, 251, 282,
      316, 355, 398, 447, 501, 562, 631, 708, 794, 891>>

\* 10 ** (d / (10 * n)) metres, in centimetres, for a whole number d of dB
RECURSIVE Pow10Cm(_)
Pow10Cm(d) ==
    IF d >= 10 * n_exp THEN 10 * Pow10Cm(d - 10 * n_exp)
    ELSE IF d < 0 THEN Pow10Cm(d + 10 * n_exp) \div 10
    ELSE DecadeTable[d + 1]

\* distance = 10 ** ((A - avg_rssi) / (10 * n)), avg_rssi = m.sum / m.k;
\* linear between whole dB.  nan in, nan out.
path_loss_distance(m) ==
    IF m.nan THEN [nan |-> TRUE, v |-> 0]
    ELSE LET att == A_ref * m.k - m.sum
             q   == att \div m.k
             r   == att % m.k
         IN  [nan |-> FALSE,
              v |-> Pow10Cm(q) + ((Pow10Cm(q + 1) - Pow10Cm(q)) * r) \div m.k]

\* the filter without its `node_mac in self.node_positions` test
qualifies_unregistered(node_mac, buffer) == Len(buffer) > 0

\* the filter without its `len(buffer) > 0` test
qualifies_any_length(node_mac, buffer) == node_mac \in Registered

\* the filter of the loop over self.csi_buffer.items()
qualifies(node_mac, buffer) == node_mac \in Registered /\ Len(buffer) > 0

\* The loop of calculate_position over the buffers in key (creation) order:
\* the ordered dict `distances`, as a sequence of [node, d], or the exception
\* np.mean raised on the way.
RECURSIVE distances_of(_, _)
distances_of(keys, buffers) ==
    IF keys = <<>> THEN [exc |-> FALSE, items |-> <<>>]
    ELSE LET node_mac == Head(keys)
             buffer   == buffers[node_mac]
         IN  IF qualifies(node_mac, buffer)
             THEN LET avg_rssi == np_mean(recent_rssi(buffer))
                      rest     == distances_of(Tail(keys), buffers)
                  IN  IF avg_rssi.exc \/ rest.exc
                      THEN [exc |-> TRUE, items |-> <<>>]
                      ELSE [exc |-> FALSE,
                            items |-> <<[node |-> node_mac,
                                         d |-> path_loss_distance(avg_rssi)]>>
                                      \o rest.items]
             ELSE distances_of(Tail(keys), buffers)

(***************************************************************************)
(* trilaterate                                                             *)
(***************************************************************************)
\* nodes = list(distances.keys())[-3:], the last three keys
last_three(items) ==
    [i \in 1..(IF Len(items) < Quorum THEN Len(items) ELSE Quorum) |->
        items[(IF Len(items) < Quorum THEN 0 ELSE Len(items) - Quorum) + i].node]

\* nodes = list(distances.keys())[:3]
first_three(items) ==
    [i \in 1..(IF Len(items) < Quorum THEN Len(items) ELSE Quorum) |-> items[i].node]

NoPosition == [none |-> TRUE, x |-> NaN, y |-> NaN]

\* distances[node_mac]
RECURSIVE dict_lookup(_, _)
dict_lookup(items, node_mac) ==
    IF Head(items).node = node_mac THEN Head(items).d
    ELSE dict_lookup(Tail(items), node_mac)

\* the distance whose square is q (a square root, kept exact)
sqrt_of(q) == [nan |-> FALSE, sq |-> q]

\* r**2 of a distance: of v centimetres, or of a square root
pow2(r) == IF "sq" \in DOMAIN r THEN r.sq ELSE r.v * r.v

\* the block with the denominator of x also under y (B*D - A*E negated)
trilateration_math_same_denominator(p1, p2, p3, r1, r2, r3) ==
    LET A == 2 * p2[1] - 2 * p1[1]
        B == 2 * p2[2] - 2 * p1[2]
        C == pow2(r1) - pow2(r2) - p1[1] * p1[1] + p2[1] * p2[1]
             - p1[2] * p1[2] + p2[2] * p2[2]
        D == 2 * p3[1] - 2 * p2[1]
        E == 2 * p3[2] - 2 * p2[2]
        F == pow2(r2) - pow2(r3) - p2[1] * p2[1] + p3[1] * p3[1]
             - p2[2] * p2[2] + p3[2] * p3[2]
    IN  [none |-> FALSE,
         x |-> np_divide(r1.nan \/ r2.nan \/ r3.nan, C * E - F * B, E * A - B * D),
         y |-> np_divide(r1.nan \/ r2.nan \/ r3.nan, C * D - A * F, E * A - B * D)]

\* The "Trilateration math" block with the terms of C on p1 and p2 taken
\* with the opposite sign
trilateration_math_sign(p1, p2, p3, r1, r2, r3) ==
    LET A == 2 * p2[1] - 2 * p1[1]
        B == 2 * p2[2] - 2 * p1[2]
        C == pow2(r1) - pow2(r2) + p1[1] * p1[1] - p2[1] * p2[1]
             + p1[2] * p1[2] - p2[2] * p2[2]
        D == 2 * p3[1] - 2 * p2[1]
        E == 2 * p3[2] - 2 * p2[2]
        F == pow2(r2) - pow2(r3) - p2[1] * p2[1] + p3[1] * p3[1]
             - p2[2] * p2[2] + p3[2] * p3[2]
    IN  [none |-> FALSE,
         x |-> np_divide(r1.nan \/ r2.nan \/ r3.nan, C * E - F * B, E * A - B * D),
         y |-> np_divide(r1.nan \/ r2.nan \/ r3.nan, C * D - A * F, B * D - A * E)]

\* The "Trilateration math" block on anchors p1, p2, p3 (centimetres) and
\* distances r1, r2, r3 ([nan, v], centimetres).
trilateration_math(p1, p2, p3, r1, r2, r3) ==
    LET A == 2 * p2[1] - 2 * p1[1]
        B == 2 * p2[2] - 2 * p1[2]
        C == pow2(r1) - pow2(r2) - p1[1] * p1[1] + p2[1] * p2[1]
             - p1[2] * p1[2] + p2[2] * p2[2]
        Cnan == r1.nan \/ r2.nan
        D == 2 * p3[1] - 2 * p2[1]
        E == 2 * p3[2] - 2 * p2[2]
        F == pow2(r2) - pow2(r3) - p2[1] * p2[1] + p3[1] * p3[1]
             - p2[2] * p2[2] + p3[2] * p3[2]
        Fnan == r2.nan \/ r3.nan
    IN  [none |-> FALSE,
         x |-> np_divide(Cnan \/ Fnan, C * E - F * B, E * A - B * D),
         y |-> np_divide(Cnan \/ Fnan, C * D - A * F, B * D - A * E)]

\* trilaterate that takes r3 from the last key of distances instead of
\* nodes[2]
trilaterate_r3_last(items) ==
    LET nodes == first_three(items)
    IN  IF Len(nodes) < 3 \/ \E i \in 1..Len(nodes) : nodes[i] \notin Registered
        THEN NoPosition @@ [nodes |-> nodes]
        ELSE trilateration_math(node_positions[nodes[1]], node_positions[nodes[2]],
                                node_positions[nodes[3]],
                                dict_lookup(items, nodes[1]),
                                dict_lookup(items, nodes[2]),
                                items[Len(items)].d)
             @@ [nodes |-> nodes]

\* trilaterate(distances): None when the body raises (IndexError on nodes[i]
\* with fewer than three keys, KeyError on a node without a position).
\* nodes: the keys it took.
trilaterate(items) ==
    LET nodes == first_three(items)
    IN  IF Len(nodes) < 3 \/ \E i \in 1..Len(nodes) : nodes[i] \notin Registered
        THEN NoPosition @@ [nodes |-> nodes]
        ELSE trilateration_math(node_positions[nodes[1]], node_positions[nodes[2]],
                                node_positions[nodes[3]],
                                dict_lookup(items, nodes[1]),
                                dict_lookup(items, nodes[2]),
                                dict_lookup(items, nodes[3]))
             @@ [nodes |-> nodes]

(***************************************************************************)
(* publish_position                                                        *)
(***************************************************************************)
PositionTopic == "homeassistant/sensor/whofi_position/state"
TrackerTopic == "homeassistant/device_tracker/whofi_tracker/attributes"

\* the payloads with position[0] and position[1] exchanged
publish_position_swapped(position, now) ==
    << [topic |-> PositionTopic,
        x |-> round_unit(position.y), y |-> round_unit(position.x),
        timestamp |-> now, confidence |-> "0.8", source |-> "csi_trilateration"],
       [topic |-> TrackerTopic,
        latitude |-> divide_by(position.x, 100),
        longitude |-> divide_by(position.y, 100),
        gps_accuracy |-> "2.0", source_type |-> "router"] >>

\* the two mqtt_client.publish calls, in order; now is datetime.now()
publish_position(position, now) ==
    << [topic |-> PositionTopic,
        x |-> round_unit(position.x), y |-> round_unit(position.y),
        timestamp |-> now, confidence |-> "0.8", source |-> "csi_trilateration"],
       [topic |-> TrackerTopic,
        latitude |-> divide_by(position.y, 100),
        longitude |-> divide_by(position.x, 100),
        gps_accuracy |-> "2.0", source_type |-> "router"] >>

\* The faults of the transport's publish call: it works; it returns an error
\* code and sends nothing (the code ignores the return value); it raises on
\* the first call of publish_position; it raises on the second.
PublishFaults == {"none", "refused", "raise_first", "raise_second"}

\* self.mqtt_client.publish(topic, payload), for the calls of publish_position
\* in order: what reaches the broker, and whether a call raised (the calls
\* after it are not made).
mqtt_client_publish(records) ==
    CASE publish_fault = "none"         -> [sent |-> records, exc |-> FALSE]
      [] publish_fault = "refused"      -> [sent |-> <<>>, exc |-> FALSE]
      [] publish_fault = "raise_first"  -> [sent |-> <<>>, exc |-> TRUE]
      [] publish_fault = "raise_second" -> [sent |-> <<records[1]>>, exc |-> TRUE]

\* calculate_position(): what it publishes and logs, and the solve it made.
\* distances: the dict it built; solved: trilaterate was called; used: the
\* nodes it took.
calculate_position(keys, buffers, now) ==
    LET distances == distances_of(keys, buffers)
    IN  IF distances.exc
        THEN [published |-> <<>>, log |-> <<"calculate_position">>,
              distances |-> <<>>,
              solved |-> FALSE, used |-> <<>>, position |-> NoPosition]
        ELSE IF Len(distances.items) >= Quorum
        THEN LET position == trilaterate(distances.items)
                 publish  == mqtt_client_publish(publish_position(position, now))
             IN  [published |-> IF position.none THEN <<>> ELSE publish.sent,
                  log |-> IF position.none THEN <<"trilaterate">>
                          ELSE IF publish.exc THEN <<"calculate_position">>
                          ELSE <<>>,
                  distances |-> distances.items,
                  solved |-> TRUE, used |-> position.nodes,
                  position |-> [none |-> position.none,
                                x |-> position.x, y |-> position.y]]
        ELSE [published |-> <<>>, log |-> <<>>, distances |-> distances.items,
              solved |-> FALSE, used |-> <<>>, position |-> NoPosition]

(***************************************************************************)
(* State.                                                                  *)
(***************************************************************************)
VARIABLES
    csi_buffer,     \* self.csi_buffer: node -> deque, <<>> for a node without a key
    buffer_keys,    \* the keys of self.csi_buffer in insertion order
    nodes,          \* self.nodes: node -> stats record
    subscriptions,  \* topics subscribed at the broker
    sent,           \* per node: data messages it has sent (its timestamp source)
    nEvents,        \* events handled so far
    nMalformed,     \* of these, malformed data messages
    nControl,       \* of these, stats, other topics and reconnects
    last,           \* the event handled by the last step
    out,            \* what the last step's handler did
    received,       \* the input of the last step, where a property reads it whole
    threads         \* per handler thread: where its invocation of on_message is

vars == <<config, publish_fault, csi_buffer, buffer_keys, nodes, subscriptions,
          sent, nEvents, nMalformed, nControl, last, out, received, threads>>

\* datetime.now(): the wall clock is not modelled, every reading is this token
now == "now"

NoStats == [present |-> FALSE, packets |-> Absent, enabled |-> Absent,
            uptime |-> Absent, last_seen |-> "never"]

Quiet == [published |-> <<>>, log |-> <<>>, distances |-> <<>>,
          solved |-> FALSE, used |-> <<>>,
          position |-> NoPosition, escaped |-> FALSE]

\* no input recorded
NoInput == [kind |-> "none"]

\* the threads the transport runs on_message on
Threads == {1, 2}

\* a thread that is not inside on_message
Idle == [pc |-> "idle", node_mac |-> "none", size |-> 0, idx |-> 0,
         seen |-> <<>>, instants |-> {}]

\* the processor after __init__, whatever the configuration
Constructed ==
    /\ csi_buffer = [n \in Nodes |-> <<>>]
    /\ buffer_keys = <<>>
    /\ nodes = [n \in Nodes |-> NoStats]
    /\ subscriptions = {}
    /\ sent = [n \in Nodes |-> 0]
    /\ nEvents = 0 /\ nMalformed = 0 /\ nControl = 0
    /\ last = [ev |-> "init", topic |-> <<>>, payload |-> "none"]
    /\ out = Quiet
    /\ received = NoInput
    /\ threads = [t \in Threads |-> Idle]

\* the installation "site" with a working transport
Init ==
    /\ config = "site"
    /\ publish_fault = "none"
    /\ Constructed

InKeys(node_mac, keys) == \E i \in 1..Len(keys) : keys[i] = node_mac

\* a lookup that inserts nothing (dict.get with a fresh deque as default)
defaultdict_get_noinsert(keys, node_mac) == keys

\* defaultdict.__getitem__: a missing key is inserted with an empty deque
defaultdict_get(keys, node_mac) ==
    IF InKeys(node_mac, keys) THEN keys ELSE Append(keys, node_mac)

\* an append that never evicts (a plain list)
deque_append_unbounded(buffer, x) == Append(buffer, x)

\* an append that drops the new entry when the buffer is full
deque_append_reject(buffer, x) ==
    IF Len(buffer) >= maxlen THEN buffer ELSE Append(buffer, x)

\* deque(maxlen=100).append
deque_append(buffer, x) ==
    IF Len(buffer) >= maxlen THEN Append(Tail(buffer), x) ELSE Append(buffer, x)

EmptyList == [tag |-> "list", v |-> 0]

\* a dict literal built with data.get(key): a missing key becomes None
measurement_of_get(data) ==
    IF data.json # "object"
    THEN [exc |-> TRUE, m |-> EmptyObject]
    ELSE [exc |-> FALSE,
          m |-> [timestamp |-> IF data.obj["timestamp"] = Absent THEN Null
                               ELSE data.obj["timestamp"],
                 rssi |-> IF data.obj["rssi"] = Absent THEN Null
                          ELSE data.obj["rssi"],
                 csi_data |-> IF data.obj["csi_data"] = Absent THEN EmptyList
                              ELSE data.obj["csi_data"],
                 channel |-> IF data.obj["channel"] = Absent THEN Null
                             ELSE data.obj["channel"],
                 rate |-> IF data.obj["rate"] = Absent THEN Null
                          ELSE data.obj["rate"]]]

\* the dict literal of process_csi_data: KeyError on a missing required key,
\* TypeError when data is not a mapping
measurement_of(data) ==
    IF data.json # "object" \/ \E f \in RequiredData : data.obj[f] = Absent
    THEN [exc |-> TRUE, m |-> EmptyObject]
    ELSE [exc |-> FALSE,
          m |-> [timestamp |-> data.obj["timestamp"],
                 rssi |-> data.obj["rssi"],
                 csi_data |-> IF data.obj["csi_data"] = Absent THEN EmptyList
                              ELSE data.obj["csi_data"],
                 channel |-> data.obj["channel"],
                 rate |-> data.obj["rate"]]]

\* process_csi_data that runs the cycle before it appends: the cycle reads
\* the buffers without the new measurement
process_csi_data_solve_first(keys, buffers, node_mac, data, t) ==
    LET keys1 == defaultdict_get(keys, node_mac)
        made  == measurement_of(data)
        bufs1 == [buffers EXCEPT ![node_mac] = deque_append(@, made.m)]
    IN  IF made.exc
        THEN [keys |-> keys1, buffers |-> buffers, raised |-> TRUE, calc |-> Quiet]
        ELSE [keys |-> keys1, buffers |-> bufs1, raised |-> FALSE,
              calc |-> IF Len(keys1) >= Quorum
                       THEN calculate_position(keys1, buffers, t) @@ [escaped |-> FALSE]
                       ELSE Quiet]

\* process_csi_data that empties every buffer once a cycle has published
process_csi_data_drain(keys, buffers, node_mac, data, t) ==
    LET keys1 == defaultdict_get(keys, node_mac)
        made  == measurement_of(data)
        bufs1 == [buffers EXCEPT ![node_mac] = deque_append(@, made.m)]
        calc  == IF Len(keys1) >= Quorum
                 THEN calculate_position(keys1, bufs1, t) @@ [escaped |-> FALSE]
                 ELSE Quiet
    IN  IF made.exc
        THEN [keys |-> keys1, buffers |-> buffers, raised |-> TRUE, calc |-> Quiet]
        ELSE [keys |-> keys1,
              buffers |-> IF calc.published # <<>> THEN [n \in Nodes |-> <<>>]
                          ELSE bufs1,
              raised |-> FALSE, calc |-> calc]

\* process_csi_data that takes the measurement back when the cycle could not
\* publish both records
process_csi_data_rollback(keys, buffers, node_mac, data, t) ==
    LET keys1 == defaultdict_get(keys, node_mac)
        made  == measurement_of(data)
        bufs1 == [buffers EXCEPT ![node_mac] = deque_append(@, made.m)]
        calc  == IF Len(keys1) >= Quorum
                 THEN calculate_position(keys1, bufs1, t) @@ [escaped |-> FALSE]
                 ELSE Quiet
    IN  IF made.exc
        THEN [keys |-> keys1, buffers |-> buffers, raised |-> TRUE, calc |-> Quiet]
        ELSE [keys |-> keys1,
              buffers |-> IF calc.solved /\ Len(calc.published) < 2 THEN buffers
                          ELSE bufs1,
              raised |-> FALSE, calc |-> calc]

\* process_csi_data(node_mac, data) on buffers (keys, buffers)
process_csi_data(keys, buffers, node_mac, data, t) ==
    LET keys1 == defaultdict_get(keys, node_mac)
        made  == measurement_of(data)
        bufs1 == [buffers EXCEPT ![node_mac] = deque_append(@, made.m)]
    IN  IF made.exc
        THEN [keys |-> keys1, buffers |-> buffers, raised |-> TRUE, calc |-> Quiet]
        ELSE [keys |-> keys1, buffers |-> bufs1, raised |-> FALSE,
              calc |-> IF Len(keys1) >= Quorum
                       THEN calculate_position(keys1, bufs1, t) @@ [escaped |-> FALSE]
                       ELSE Quiet]

\* stats.get(key, default)
dict_get(obj, key, default) == IF obj[key] = Absent THEN default ELSE obj[key]

\* update_node_stats that updates the record in place: a field absent from
\* the message keeps the value the record had
update_node_stats_keep(stats_map, node_mac, stats, t) ==
    IF stats.json # "object"
    THEN [nodes |-> stats_map, raised |-> TRUE]
    ELSE LET old == IF stats_map[node_mac].present THEN stats_map[node_mac]
                    ELSE [packets |-> Num(0), enabled |-> Bool(FALSE),
                          uptime |-> Num(0)]
         IN  [nodes |-> [stats_map EXCEPT ![node_mac] =
                        [present |-> TRUE,
                         packets |-> dict_get(stats.obj, "packets", old.packets),
                         enabled |-> dict_get(stats.obj, "enabled", old.enabled),
                         uptime |-> dict_get(stats.obj, "uptime", old.uptime),
                         last_seen |-> t]],
              raised |-> FALSE]

\* update_node_stats(node_mac, stats): AttributeError when stats has no .get
update_node_stats(stats_map, node_mac, stats, t) ==
    IF stats.json # "object"
    THEN [nodes |-> stats_map, raised |-> TRUE]
    ELSE [nodes |-> [stats_map EXCEPT ![node_mac] =
                        [present |-> TRUE,
                         packets |-> dict_get(stats.obj, "packets", Num(0)),
                         enabled |-> dict_get(stats.obj, "enabled", Bool(FALSE)),
                         uptime |-> dict_get(stats.obj, "uptime", Num(0)),
                         last_seen |-> t]],
          raised |-> FALSE]

\* an on_message without its try/except: the exception leaves the handler
on_message_reraise(raised, o) == [o EXCEPT !.escaped = raised]

\* the except clause of on_message: an exception of the body is logged, not
\* re-raised
on_message_except(raised, o) ==
    IF raised THEN [o EXCEPT !.log = Append(@, "on_message"), !.escaped = FALSE]
    ELSE o

\* What kind of payload a message carried (recorded in `last`, read by no
\* handler): "bad" undecodable, "scalar" not an object, "data" an object with
\* every required data key and a numeric rssi, "unusable" the same with an
\* rssi that is not a number, "partial" an object that lacks a required key.
payload_class(payload) ==
    IF payload.json # "object" THEN payload.json
    ELSE IF \E f \in RequiredData : payload.obj[f] = Absent THEN "partial"
    ELSE IF payload.obj["rssi"].tag = "num" THEN "data"
    ELSE "unusable"

\* on_message with another stats branch: "as_data" handles a stats message
\* as it handles a data message (no elif), "cycle" runs the fusion cycle
\* after the stats update, "else" takes every kind but data for stats (else
\* in place of the elif)
on_message_stats(topic, payload, variant) ==
    /\ last' = [ev |-> "message", topic |-> topic, payload |-> payload_class(payload)]
    /\ UNCHANGED <<subscriptions, config, publish_fault>>
    /\ IF Len(topic) >= MinTopicParts
       THEN LET node_mac  == topic[3]
                data_type == topic[4]
            IN  IF payload.json = "bad"
                THEN /\ out' = on_message_except(TRUE, Quiet)
                     /\ UNCHANGED <<csi_buffer, buffer_keys, nodes>>
                ELSE IF data_type = "data" \/ (data_type = "stats" /\ variant = "as_data")
                THEN LET r == process_csi_data(buffer_keys, csi_buffer,
                                               node_mac, payload, now)
                     IN  /\ csi_buffer' = r.buffers
                         /\ buffer_keys' = r.keys
                         /\ out' = on_message_except(r.raised, r.calc)
                         /\ UNCHANGED nodes
                ELSE IF data_type = "stats" \/ variant = "else"
                THEN LET r == update_node_stats(nodes, node_mac, payload, now)
                     IN  /\ nodes' = r.nodes
                         /\ out' = on_message_except(r.raised,
                                      IF r.raised \/ Len(buffer_keys) < Quorum
                                         \/ variant # "cycle" THEN Quiet
                                      ELSE calculate_position(buffer_keys, csi_buffer, now)
                                           @@ [escaped |-> FALSE])
                         /\ UNCHANGED <<csi_buffer, buffer_keys>>
                ELSE /\ out' = Quiet
                     /\ UNCHANGED <<csi_buffer, buffer_keys, nodes>>
       ELSE /\ out' = Quiet
            /\ UNCHANGED <<csi_buffer, buffer_keys, nodes>>

\* on_message without the elif: a stats message goes to process_csi_data
on_message_stats_as_data(topic, payload) == on_message_stats(topic, payload, "as_data")

\* on_message that runs the fusion cycle after every stats update
on_message_stats_cycle(topic, payload) == on_message_stats(topic, payload, "cycle")

\* on_message with else in place of elif data_type == 'stats'
on_message_else_stats(topic, payload) == on_message_stats(topic, payload, "else")

\* on_message(client, userdata, msg)
on_message(topic, payload) ==
    /\ last' = [ev |-> "message", topic |-> topic, payload |-> payload_class(payload)]
    /\ UNCHANGED <<subscriptions, config, publish_fault>>
    /\ IF Len(topic) >= MinTopicParts
       THEN LET node_mac  == topic[3]
                data_type == topic[4]
            IN  IF payload.json = "bad"
                THEN /\ out' = on_message_except(TRUE, Quiet)
                     /\ UNCHANGED <<csi_buffer, buffer_keys, nodes>>
                ELSE IF data_type = "data"
                THEN LET r == process_csi_data(buffer_keys, csi_buffer,
                                               node_mac, payload, now)
                     IN  /\ csi_buffer' = r.buffers
                         /\ buffer_keys' = r.keys
                         /\ out' = on_message_except(r.raised, r.calc)
                         /\ UNCHANGED nodes
                ELSE IF data_type = "stats"
                THEN LET r == update_node_stats(nodes, node_mac, payload, now)
                     IN  /\ nodes' = r.nodes
                         /\ out' = on_message_except(r.raised, Quiet)
                         /\ UNCHANGED <<csi_buffer, buffer_keys>>
                ELSE /\ out' = Quiet
                     /\ UNCHANGED <<csi_buffer, buffer_keys, nodes>>
       ELSE /\ out' = Quiet
            /\ UNCHANGED <<csi_buffer, buffer_keys, nodes>>

\* on_connect that starts over: it empties the buffers as __init__ does
on_connect_reset ==
    /\ subscriptions' = subscriptions \cup {"whofi/csi/+/data", "whofi/csi/+/stats"}
    /\ last' = [ev |-> "connect", topic |-> <<>>, payload |-> "none"]
    /\ out' = Quiet
    /\ csi_buffer' = [n \in Nodes |-> <<>>]
    /\ buffer_keys' = <<>>
    /\ UNCHANGED <<nodes, config, publish_fault>>

\* on_connect(client, userdata, flags, rc)
on_connect ==
    /\ subscriptions' = subscriptions \cup {"whofi/csi/+/data", "whofi/csi/+/stats"}
    /\ last' = [ev |-> "connect", topic |-> <<>>, payload |-> "none"]
    /\ out' = Quiet
    /\ UNCHANGED <<csi_buffer, buffer_keys, nodes, config, publish_fault>>

(***************************************************************************)
(* The environment: what the broker delivers.                              *)
(***************************************************************************)
Topic(node_mac, kind) == <<"whofi", "csi", node_mac, kind>>
ShortTopic(node_mac) == <<"whofi", "csi", node_mac>>

\* one node with a configured position and one without
BufferNodes == {"n1", "n5"}

\* signal strengths a node reports
RssiValues == {0 - 30, 0 - 40}

\* an object that lacks one key
Without(o, f) == [o EXCEPT ![f] = Absent]

\* payloads a node puts on its data channel that carry every required key;
\* ts is the node's own counter
DataPayloads(ts) ==
    {Object(DataObject(ts, Num(r))) : r \in RssiValues}
    \cup {Object(DataObject(ts, Null))}

\* payloads on the data channel that lack a required key, are no object, or
\* do not decode
MalformedPayloads(ts) ==
    {Object(Without(DataObject(ts, Num(0 - 40)), f)) : f \in RequiredData}
    \cup {Scalar, BadJson}

\* payloads a node puts on its stats channel
StatsPayloads ==
    {Object(StatsObject(Num(7), Bool(TRUE), Num(9))),
     Object(StatsObject(Num(7), Absent, Absent)),
     Scalar, BadJson}

DataMessage ==
    /\ nEvents < MaxEvents
    /\ \E node_mac \in Nodes :
         /\ \E payload \in DataPayloads(sent[node_mac] + 1) :
                on_message(Topic(node_mac, "data"), payload)
         /\ sent' = [sent EXCEPT ![node_mac] = @ + 1]
    /\ nEvents' = nEvents + 1
    /\ UNCHANGED <<nMalformed, nControl>>
    /\ UNCHANGED <<received, threads>>

MalformedDataMessage ==
    /\ nEvents < MaxEvents /\ nMalformed < MaxMalformed
    /\ \E node_mac \in Nodes :
         /\ \E payload \in MalformedPayloads(sent[node_mac] + 1) :
                on_message(Topic(node_mac, "data"), payload)
         /\ sent' = [sent EXCEPT ![node_mac] = @ + 1]
    /\ nEvents' = nEvents + 1
    /\ nMalformed' = nMalformed + 1
    /\ UNCHANGED nControl
    /\ UNCHANGED <<received, threads>>

StatsMessage ==
    /\ nEvents < MaxEvents /\ nControl < MaxControl
    /\ \E node_mac \in Nodes, payload \in StatsPayloads :
           on_message(Topic(node_mac, "stats"), payload)
    /\ nEvents' = nEvents + 1
    /\ nControl' = nControl + 1
    /\ UNCHANGED <<sent, nMalformed>>
    /\ UNCHANGED <<received, threads>>

\* a topic with fewer than four segments, or a kind that is neither data nor stats
OtherMessage ==
    /\ nEvents < MaxEvents /\ nControl < MaxControl
    /\ \E node_mac \in BufferNodes :
         \E topic \in {ShortTopic(node_mac), Topic(node_mac, "config")},
            payload \in {Object(DataObject(1, Num(0 - 40))),
                         Object(StatsObject(Num(7), Bool(TRUE), Num(9))), BadJson} :
                on_message(topic, payload)
    /\ nEvents' = nEvents + 1
    /\ nControl' = nControl + 1
    /\ UNCHANGED <<sent, nMalformed>>
    /\ UNCHANGED <<received, threads>>

\* the transport reconnects
Connect ==
    /\ nEvents < MaxEvents /\ nControl < MaxControl
    /\ on_connect
    /\ nEvents' = nEvents + 1
    /\ nControl' = nControl + 1
    /\ UNCHANGED <<sent, nMalformed>>
    /\ UNCHANGED <<received, threads>>

Next == DataMessage \/ MalformedDataMessage \/ StatsMessage \/ OtherMessage \/ Connect

Spec == Init /\ [][Next]_vars

(***************************************************************************)
(* A second environment: two nodes that only send well-formed data, long   *)
(* enough to fill their buffers beyond maxlen.                             *)
(***************************************************************************)
BufferAppend ==
    /\ \E node_mac \in BufferNodes :
         /\ sent[node_mac] < MaxAppends
         /\ on_message(Topic(node_mac, "data"),
                       Object(DataObject(sent[node_mac] + 1, Num(0 - 40))))
         /\ sent' = [sent EXCEPT ![node_mac] = @ + 1]
    /\ nEvents' = nEvents + 1
    /\ UNCHANGED <<nMalformed, nControl>>
    /\ UNCHANGED <<received, threads>>

NextBuffer == BufferAppend

SpecBuffer == Init /\ [][NextBuffer]_vars

(***************************************************************************)
(* A third environment: n2 and n3 report once, then n1 keeps reporting     *)
(* changing signal strengths until its buffer is longer than the recent    *)
(* window (each of its messages runs a cycle); at any time n4 sends one    *)
(* message that lacks a key (its buffer exists and is empty).              *)
(***************************************************************************)
WindowData ==
    /\ \E node_mac \in {"n1", "n2", "n3"} :
         /\ IF node_mac = "n1"
            THEN sent["n1"] < MaxWindow /\ sent["n2"] = 1 /\ sent["n3"] = 1
            ELSE sent[node_mac] < 1
         /\ \E r \in (IF node_mac = "n1" THEN RssiValues ELSE {0 - 40}) :
                on_message(Topic(node_mac, "data"),
                           Object(DataObject(sent[node_mac] + 1, Num(r))))
         /\ sent' = [sent EXCEPT ![node_mac] = @ + 1]
    /\ nEvents' = nEvents + 1
    /\ UNCHANGED <<nMalformed, nControl>>
    /\ UNCHANGED <<received, threads>>

WindowMalformed ==
    /\ nMalformed < 1
    /\ on_message(Topic("n4", "data"),
                  Object(Without(DataObject(sent["n4"] + 1, Num(0 - 40)), "rssi")))
    /\ sent' = [sent EXCEPT !["n4"] = @ + 1]
    /\ nEvents' = nEvents + 1
    /\ nMalformed' = nMalformed + 1
    /\ UNCHANGED nControl
    /\ UNCHANGED <<received, threads>>

NextWindow == WindowData \/ WindowMalformed

SpecWindow == Init /\ [][NextWindow]_vars

(***************************************************************************)
(* A fourth environment: trilaterate called on its own, for each of the    *)
(* installations, with a distance for each of n1, n2, n3.                  *)
(***************************************************************************)
\* distances handed to trilaterate, in centimetres (around 7.07 m: the
\* products of the solve stay within the integers TLC computes with)
Radii == {700, 707, 710, 720}

InitSolve ==
    /\ config \in DOMAIN Configs
    /\ publish_fault = "none"
    /\ Constructed

\* position = self.trilaterate(distances) with distances = {n1: r1, n2: r2,
\* n3: r3}
Solve ==
    /\ last.ev = "init"
    /\ \E r1 \in Radii, r2 \in Radii, r3 \in Radii :
         LET distances == << [node |-> "n1", d |-> [nan |-> FALSE, v |-> r1]],
                             [node |-> "n2", d |-> [nan |-> FALSE, v |-> r2]],
                             [node |-> "n3", d |-> [nan |-> FALSE, v |-> r3]] >>
             position  == trilaterate(distances)
         IN  out' = [Quiet EXCEPT !.distances = distances, !.solved = TRUE,
                                  !.used = position.nodes,
                                  !.position = [none |-> position.none,
                                                x |-> position.x,
                                                y |-> position.y]]
    /\ last' = [ev |-> "trilaterate", topic |-> <<>>, payload |-> "none"]
    /\ UNCHANGED <<config, publish_fault, csi_buffer, buffer_keys, nodes,
                   subscriptions, sent, nEvents, nMalformed, nControl>>
    /\ UNCHANGED <<received, threads>>

NextSolve == Solve

SpecSolve == InitSolve /\ [][NextSolve]_vars

(***************************************************************************)
(* A fifth environment, the end-to-end scenario: the installation          *)
(* "triangle", whose three nodes each report the signal strength -36, and  *)
(* nothing else is received.                                               *)
(***************************************************************************)
InitEndToEnd ==
    /\ config = "triangle"
    /\ publish_fault = "none"
    /\ Constructed

Report ==
    /\ \E node_mac \in {"n1", "n2", "n3"} :
         /\ sent[node_mac] < MaxSamples
         /\ on_message(Topic(node_mac, "data"),
                       Object(DataObject(sent[node_mac] + 1, Num(0 - 36))))
         /\ sent' = [sent EXCEPT ![node_mac] = @ + 1]
    /\ nEvents' = nEvents + 1
    /\ UNCHANGED <<nMalformed, nControl>>
    /\ UNCHANGED <<received, threads>>

NextEndToEnd == Report

SpecEndToEnd == InitEndToEnd /\ [][NextEndToEnd]_vars

(***************************************************************************)
(* A sixth environment: n1 (changing signal strengths), n2 and n3 report    *)
(* while the transport's publish call changes between working and its      *)
(* faults.                                                                 *)
(***************************************************************************)
PublishData ==
    /\ \E node_mac \in {"n1", "n2", "n3"} :
         /\ sent[node_mac] < MaxReports
         /\ \E r \in (IF node_mac = "n1" THEN RssiValues ELSE {0 - 40}) :
                on_message(Topic(node_mac, "data"),
                           Object(DataObject(sent[node_mac] + 1, Num(r))))
         /\ sent' = [sent EXCEPT ![node_mac] = @ + 1]
    /\ nEvents' = nEvents + 1
    /\ UNCHANGED <<nMalformed, nControl>>
    /\ UNCHANGED <<received, threads>>

\* the transport starts or stops failing; no callback runs
TransportChange ==
    /\ \E f \in PublishFaults \ {publish_fault} : publish_fault' = f
    /\ UNCHANGED <<config, csi_buffer, buffer_keys, nodes, subscriptions, sent,
                   nEvents, nMalformed, nControl, last, out>>
    /\ UNCHANGED <<received, threads>>

NextPublish == PublishData \/ TransportChange

SpecPublish == Init /\ [][NextPublish]_vars

(***************************************************************************)
(* Vocabulary of the properties.                                           *)
(***************************************************************************)
\* nodes with a configured position and a non-empty buffer
Qualifying == {n \in Nodes : n \in Registered /\ Len(csi_buffer[n]) > 0}

\* the orchestrator's state: READY with a quorum of qualifying nodes
READY == Cardinality(Qualifying) >= 3

\* a position result was published by the last handler
PositionPublished ==
    \E i \in 1..Len(out.published) : out.published[i].topic = PositionTopic

\* the last event was a data-channel message whose measurement was buffered
LastBuffered ==
    /\ last.ev = "message" /\ Len(last.topic) >= 4 /\ last.topic[4] = "data"
    /\ last.payload \in {"data", "unusable"}

\* the denominator E*A - B*D of the solve on three anchors
Denominator(p1, p2, p3) ==
    (2 * p3[2] - 2 * p2[2]) * (2 * p2[1] - 2 * p1[1])
    - (2 * p2[2] - 2 * p1[2]) * (2 * p3[1] - 2 * p2[1])

\* the anchors of the last solve are collinear or coincide
DegenerateSolve ==
    /\ out.solved /\ Len(out.used) = 3
    /\ \A i \in 1..3 : out.used[i] \in Registered
    /\ Denominator(node_positions[out.used[1]], node_positions[out.used[2]],
                   node_positions[out.used[3]]) = 0

(***************************************************************************)
(* Properties.                                                             *)
(***************************************************************************)
\* C1: a position result is published only in READY: whenever the last
\* handler published, at least 3 nodes with a configured position have a
\* non-empty buffer (buffers of nodes without a position and stats do not
\* count).
C1_PublishedOnlyWhenReady == out.published # <<>> => READY

\* C1 witness: a result was published with exactly three qualifying nodes
\* while a node without a position has buffered data.
C1_Witness ==
    /\ PositionPublished /\ Cardinality(Qualifying) = 3
    /\ Len(csi_buffer["n5"]) > 0

\* C2 (as claimed): when the three anchors of a cycle are collinear or
\* coincide, nothing is published for the cycle and the handler completes.
C2_DegenerateCycleSkipped ==
    DegenerateSolve => (out.published = <<>> /\ ~out.escaped)

\* C3 (as claimed): the solve returns null for three collinear anchors,
\* whatever the distances.
C3_CollinearReturnsNull == DegenerateSolve => out.position.none

\* the timestamps of a buffer, in buffer order
Timestamps(buffer) == [i \in 1..Len(buffer) |-> buffer[i].timestamp.v]

\* C4: after N > maxlen well-formed data messages of one node, its buffer
\* holds exactly the last maxlen measurements of the sequence, in arrival
\* order (the node numbers its messages 1, 2, ..., N in their timestamps).
C4_HoldsLastC ==
    \A n \in Nodes :
        sent[n] > maxlen =>
            Timestamps(csi_buffer[n]) = [i \in 1..maxlen |-> sent[n] - maxlen + i]

\* C4 witness: both nodes have sent more than maxlen messages.
C4_Witness == \A n \in BufferNodes : sent[n] > maxlen

\* C5: every buffer holds at most maxlen measurements, its entries are in
\* arrival order (each arrived after the one before it) and the measurement
\* of the node's latest well-formed message is its last entry (no rejection).
C5_BoundedInOrderNeverRejects ==
    \A n \in Nodes :
        /\ Len(csi_buffer[n]) <= maxlen
        /\ \A i \in 1..(Len(csi_buffer[n]) - 1) :
               csi_buffer[n][i].timestamp.v < csi_buffer[n][i + 1].timestamp.v
        /\ sent[n] > 0 =>
               /\ Len(csi_buffer[n]) > 0
               /\ csi_buffer[n][Len(csi_buffer[n])].timestamp.v = sent[n]

\* C5 witness: a full buffer took two more measurements.
C5_Witness ==
    \E n \in BufferNodes : sent[n] = maxlen + 2 /\ Len(csi_buffer[n]) = maxlen

\* registered nodes that hold a measurement with a numeric signal strength
WellFed ==
    {n \in Registered : \E i \in 1..Len(csi_buffer[n]) : csi_buffer[n][i].rssi.tag = "num"}

\* C6 (as claimed): the system becomes READY exactly in the step in which
\* the third distinct registered node receives its first well-formed
\* measurement, and that step's handler attempts a solve.
C6_ReadyAtThirdWellFormed ==
    [][ /\ (~READY /\ READY') <=>
             (Cardinality(WellFed) = 2 /\ Cardinality(WellFed') = 3)
        /\ (~READY /\ READY') => out'.solved ]_vars

\* C7: once READY, READY in every later state: no event (data, stats,
\* malformed, other topic, reconnect) removes a node from the qualifying set.
C7_ReadyIsStable ==
    [][ Qualifying \subseteq Qualifying' /\ (READY => READY') ]_vars

\* C7 witness: READY held through a reconnect.
C7_Witness == READY /\ last.ev = "connect"

\* every measurement buffered for a registered node has a numeric rssi
RegisteredAllNumeric ==
    \A n \in Registered : \A i \in 1..Len(csi_buffer[n]) :
        csi_buffer[n][i].rssi.tag = "num"

\* C8: every node used in a solve has a configured position and a non-empty
\* buffer; a node without a position is buffered, never used, and does not
\* keep three registered nodes from producing a result.
C8_OnlyRegisteredNonEmptyUsed ==
    /\ out.solved =>
         \A i \in 1..Len(out.used) :
             out.used[i] \in Registered /\ Len(csi_buffer[out.used[i]]) > 0
    /\ (LastBuffered /\ READY /\ RegisteredAllNumeric) => PositionPublished

\* C8 witness: a result was published although the first buffer created
\* belongs to a node without a position and holds an unusable measurement.
C8_Witness ==
    /\ PositionPublished /\ Len(buffer_keys) = 4 /\ buffer_keys[1] = "n5"
    /\ csi_buffer["n5"][1].rssi = Null

IsQualifying(n) == n \in Qualifying

\* C9: every solve uses exactly 3 nodes: the first three qualifying nodes in
\* the order in which the buffers were created, also when more qualify.
C9_FirstThreeInCreationOrder ==
    out.solved =>
        /\ Len(out.used) = 3
        /\ out.used = SubSeq(SelectSeq(buffer_keys, IsQualifying), 1, 3)

\* C9 witness: a solve with four qualifying nodes.
C9_Witness == out.solved /\ Cardinality(Qualifying) = 4

\* C10: no exception leaves on_message, whatever the topic and the payload.
C10_HandlerNeverRaises == ~out.escaped

\* C10 witness: the handler's body raised on a payload that is no object and
\* the handler logged it.
C10_Witness ==
    /\ last.ev = "message" /\ last.payload = "scalar"
    /\ \E i \in 1..Len(out.log) : out.log[i] = "on_message"

\* a measurement whose signal strength is a number
IsNumeric(m) == m.rssi.tag = "num"

\* The buffers as they would be had no message of unusable signal strength
\* been received: the same measurements without those of such messages
\* (below maxlen messages per node nothing was evicted for them).
CleanBuffers == [n \in Nodes |-> SelectSeq(csi_buffer[n], IsNumeric)]

\* a buffer key that exists without those messages: one that holds a usable
\* measurement, or that no measurement created (an empty buffer)
HasCleanKey(n) == Len(csi_buffer[n]) = 0 \/ Len(CleanBuffers[n]) > 0

CleanKeys == SelectSeq(buffer_keys, HasCleanKey)

\* what the cycle of process_csi_data publishes on those buffers
CleanPublished ==
    IF Len(CleanKeys) >= Quorum
    THEN calculate_position(CleanKeys, CleanBuffers, now).published
    ELSE <<>>

\* C11 (as claimed): a message of unusable signal strength (null, not a
\* number) affects only itself: the cycle of every well-formed data message
\* publishes what it would publish (a result or none, the same x, y) had the
\* unusable messages never been received.
C11_BadInputAffectsOnlyItself ==
    (LastBuffered /\ last.payload = "data") => out.published = CleanPublished

\* the last event was a message on a data channel that does not decode, is
\* no object or lacks a required key
LastMalformed ==
    /\ last.ev = "message" /\ Len(last.topic) >= 4 /\ last.topic[4] = "data"
    /\ last.payload \in {"bad", "scalar", "partial"}

\* C12: a data message whose payload fails to decode or lacks a required
\* field is dropped: its handling leaves the measurements of every buffer as
\* they were, attempts no solve and publishes nothing.
C12_MalformedDropped ==
    [][ LastMalformed' =>
            /\ csi_buffer' = csi_buffer
            /\ ~out'.solved
            /\ out'.published = <<>> ]_vars

\* C12 witness: a data message that lacks a required key was handled in
\* READY, where a well-formed one runs a cycle.
C12_Witness == LastMalformed /\ last.payload = "partial" /\ READY

\* the last event was a message on a stats channel
LastStats ==
    last.ev = "message" /\ Len(last.topic) >= 4 /\ last.topic[4] = "stats"

\* C13: a stats message leaves every measurement buffer unchanged: the same
\* entries in the same order, and the same nodes with a buffer.
C13_StatsLeavesBuffers ==
    [][ LastStats' => (csi_buffer' = csi_buffer /\ buffer_keys' = buffer_keys) ]_vars

\* C13 witness: the stats of a node with buffered measurements were updated.
C13_Witness ==
    /\ LastStats /\ nodes[last.topic[3]].present
    /\ Len(csi_buffer[last.topic[3]]) > 0

\* C14: the handling of a stats message attempts no solve and publishes
\* nothing, in WAITING and in READY.
C14_StatsNeverSolves == LastStats => (~out.solved /\ out.published = <<>>)

\* C14 witness: a stats object was handled in READY.
C14_Witness == LastStats /\ READY /\ last.payload = "partial" /\ out.log = <<>>

\* the sum of the signal strengths of the entries i, i + 1, ... of a buffer
RECURSIVE SumFrom(_, _)
SumFrom(buffer, i) ==
    IF i > Len(buffer) THEN 0 ELSE buffer[i].rssi.v + SumFrom(buffer, i + 1)

\* the path-loss distance for the mean signal strength of the most recent
\* min(10, size) entries of a buffer
WindowDistance(buffer) ==
    LET k == IF Len(buffer) < 10 THEN Len(buffer) ELSE 10
    IN  path_loss_distance([exc |-> FALSE, nan |-> FALSE,
                            sum |-> SumFrom(buffer, Len(buffer) - k + 1), k |-> k])

\* the nodes the last cycle estimated a distance for
Estimated == {out.distances[i].node : i \in 1..Len(out.distances)}

\* C15: the distance a cycle estimates for a node comes from the mean signal
\* strength of exactly the most recent min(10, size) entries of its buffer
\* (all of them below 10, the last 10 from 10 on), every registered node with
\* a non-empty buffer gets one, and a node with an empty buffer gets none.
C15_DistanceFromRecentWindow ==
    /\ \A i \in 1..Len(out.distances) :
           /\ Len(csi_buffer[out.distances[i].node]) > 0
           /\ out.distances[i].d = WindowDistance(csi_buffer[out.distances[i].node])
    /\ out.solved => Estimated = Qualifying

\* C15 witness: a cycle estimated distances while n1's buffer was longer than
\* the window with a different signal strength at its oldest entry than in
\* the window, and n4's buffer existed and was empty.
C15_Witness ==
    /\ out.solved /\ "n1" \in Estimated
    /\ Len(csi_buffer["n1"]) = 11
    /\ \A i \in 2..11 : csi_buffer["n1"][i].rssi # csi_buffer["n1"][1].rssi
    /\ InKeys("n4", buffer_keys) /\ Len(csi_buffer["n4"]) = 0

\* the last event was a message on a data channel
LastData ==
    last.ev = "message" /\ Len(last.topic) >= 4 /\ last.topic[4] = "data"

\* the first three qualifying nodes in the order their buffers were created
FirstThree == SubSeq(SelectSeq(buffer_keys, IsQualifying), 1, 3)

\* READY, and the anchors of the first three qualifying nodes are neither
\* collinear nor coincident
ReadyNonDegenerate ==
    /\ READY
    /\ Denominator(node_positions[FirstThree[1]], node_positions[FirstThree[2]],
                   node_positions[FirstThree[3]]) # 0

\* the position-result records the last handler published
PositionRecords ==
    {i \in 1..Len(out.published) : out.published[i].topic = PositionTopic}

\* C16 (as claimed): in READY with non-degenerate first three anchors the
\* handling of every well-formed data message publishes exactly one position
\* record followed by exactly one tracker record; no handler publishes more
\* than one position record, and only the handling of a data message
\* publishes any.
C16_OnePositionPerDataMessage ==
    /\ (LastData /\ last.payload = "data" /\ ReadyNonDegenerate) =>
          /\ Len(out.published) = 2
          /\ out.published[1].topic = PositionTopic
          /\ out.published[2].topic = TrackerTopic
    /\ Cardinality(PositionRecords) <= 1
    /\ ~LastData => out.published = <<>>

\* C17 (as claimed): every published position result carries
\* contributing_node_ids, and they are exactly the three nodes whose
\* distances the solve used.
C17_CarriesContributingNodes ==
    \A i \in PositionRecords :
        /\ "contributing_node_ids" \in DOMAIN out.published[i]
        /\ out.published[i].contributing_node_ids = out.used

\* a coordinate is finite and within tol centimetres of target
Near(c, target, tol) ==
    /\ c.k = "fin"
    /\ (target - tol) * c.den <= c.num
    /\ c.num <= (target + tol) * c.den

\* trilaterate was called with anchors (0,0), (10,0), (5,10) and the
\* distances r1 = r2 = r3 = 7.07
SymmetricCase ==
    /\ config = "symmetric" /\ last.ev = "trilaterate"
    /\ \A i \in 1..3 : out.distances[i].d.v = 707

\* C18 (as claimed): the solve with anchors (0,0), (10,0), (5,10) and equal
\* distances 7.07 returns a point within 5 cm of (5, 3.54).
C18_SymmetricNear354 ==
    SymmetricCase =>
        /\ ~out.position.none
        /\ Near(out.position.x, 500, 5) /\ Near(out.position.y, 354, 5)

\* C18 (as amended): that solve returns the point equidistant from the three
\* anchors, (5, 3.75), within 1 cm.
C18_SymmetricIsEquidistantPoint ==
    SymmetricCase =>
        /\ ~out.position.none
        /\ Near(out.position.x, 500, 1) /\ Near(out.position.y, 375, 1)

\* C18 witness: the solve of that case returned a point.
C18_Witness == SymmetricCase /\ out.solved /\ out.used = <<"n1", "n2", "n3">>

\* C19: end to end, with registered nodes at (0,0), (10,0), (5,8.66) that
\* each report the signal strength -36 (up to ten times, nothing else is
\* received): every cycle gives every node the same distance, every message
\* handled once all three have reported publishes a position, and every
\* position solved and published is within 1 cm of the centroid
\* (5, 2.887).
C19_EndToEndCentroid ==
    /\ \A i \in 1..Len(out.distances), j \in 1..Len(out.distances) :
           out.distances[i].d = out.distances[j].d
    /\ (\A n \in {"n1", "n2", "n3"} : sent[n] >= 1) =>
           /\ Estimated = {"n1", "n2", "n3"}
           /\ Cardinality(PositionRecords) = 1
           /\ Near(out.position.x, 500, 1) /\ Near(out.position.y, 289, 1)
    /\ \A i \in PositionRecords :
           /\ Near(out.published[i].x, 500, 1)
           /\ Near(out.published[i].y, 289, 1)

\* C19 witness: each of the three nodes has reported ten times and the last
\* message published a position.
C19_Witness ==
    /\ \A n \in {"n1", "n2", "n3"} : sent[n] = 10 /\ Len(csi_buffer[n]) = 10
    /\ PositionPublished

\* the cycle of the last handler had an estimate to publish and not both of
\* its records reached the broker
PublishFailed == out.solved /\ ~out.position.none /\ Len(out.published) < 2

\* the measurement of the last data message is the newest of its node's buffer
TriggerBuffered ==
    /\ LastData /\ Len(csi_buffer[last.topic[3]]) > 0
    /\ csi_buffer[last.topic[3]][Len(csi_buffer[last.topic[3]])].timestamp.v
           = sent[last.topic[3]]

\* C20: a failure of the transport's publish call is contained and best
\* effort.  In every step that handles a message: no exception leaves the
\* handler; after a failed publish the measurement that triggered the cycle
\* is in its buffer; a handler publishes only records of the estimate of its
\* own cycle, each at most once and in order (the estimate of a failed cycle
\* is not published by a later event); and the cycle after a failed one
\* publishes both records when the transport works again.
C20_PublishFailureContained ==
    [][ nEvents' # nEvents =>
          /\ ~out'.escaped
          /\ PublishFailed' => TriggerBuffered'
          /\ Len(out'.published) <= 2
          /\ \A i \in 1..Len(out'.published) :
                 out'.published[i] = publish_position(out'.position, now)[i]
          /\ (PublishFailed /\ publish_fault' = "none") =>
                 (Len(out'.published) = 2 /\ ~PublishFailed') ]_vars

\* C20 witness: the second publish call of a cycle raised: the position
\* record was sent, the tracker record was not, the error was logged and the
\* measurement stayed in its buffer.
C20_Witness ==
    /\ PublishFailed /\ publish_fault = "raise_second"
    /\ Len(out.published) = 1 /\ out.log = <<"calculate_position">>
    /\ TriggerBuffered /\ Len(csi_buffer[last.topic[3]]) = 2

(***************************************************************************)
(* C22: a reconnect (on_connect) leaves every buffer, the buffer keys, the *)
(* node stats and the READY/WAITING state as they were and publishes       *)
(* nothing; it only subscribes to the data and the stats channel.          *)
(***************************************************************************)
C22_ReconnectKeepsState ==
    [][ (last'.ev = "connect" /\ nEvents' # nEvents)
        => /\ csi_buffer' = csi_buffer
           /\ buffer_keys' = buffer_keys
           /\ nodes' = nodes
           /\ READY' <=> READY
           /\ out'.published = <<>>
           /\ subscriptions' = subscriptions
                                 \cup {"whofi/csi/+/data", "whofi/csi/+/stats"} ]_vars

\* a reconnect while two nodes have buffered data and the processor waits
C22_Witness ==
    /\ last.ev = "connect"
    /\ ~READY
    /\ Cardinality(Qualifying) = 2
    /\ subscriptions = {"whofi/csi/+/data", "whofi/csi/+/stats"}

\* the node has per-node state: a buffer in self.csi_buffer or a record in
\* self.nodes
HasState(n) == InKeys(n, buffer_keys) \/ nodes[n].present

WithState == {n \in Nodes : HasState(n)}

\* the last event was a data message carrying every required key or a stats
\* message carrying an object
LastWellFormed ==
    /\ last.ev = "message" /\ Len(last.topic) >= 4
    /\ \/ last.topic[4] = "data" /\ last.payload \in {"data", "unusable"}
       \/ last.topic[4] = "stats" /\ last.payload \notin {"bad", "scalar", "none"}

(***************************************************************************)
(* C23: per-node state is created lazily and never destroyed: no node has  *)
(* state after construction, a step creates state at most for the node of  *)
(* its message, the set of nodes with state never loses a member, and      *)
(* after a well-formed data or stats message its node has state.           *)
(***************************************************************************)
C23_StateOnlyGrows ==
    /\ WithState = {}
    /\ [][ /\ WithState \subseteq WithState'
           /\ \A n \in WithState' \ WithState :
                  last'.ev = "message" /\ Len(last'.topic) >= 3 /\ last'.topic[3] = n
           /\ (nEvents' # nEvents /\ LastWellFormed')
                  => last'.topic[3] \in WithState' ]_vars

\* a node whose state is only its stats record, another whose state is only
\* its buffer
C23_Witness ==
    \E n \in Nodes, o \in Nodes :
        /\ nodes[n].present /\ ~InKeys(n, buffer_keys)
        /\ InKeys(o, buffer_keys) /\ ~nodes[o].present /\ Len(csi_buffer[o]) > 0

(***************************************************************************)
(* A seventh environment: the trilateration math applied once to three     *)
(* non-collinear anchors of an integer grid and the exact distances from a *)
(* target point of the grid to them.                                       *)
(***************************************************************************)
\* the grid is 0..GridMax in both coordinates
GridMax == 3

Grid == (0..GridMax) \X (0..GridMax)

\* the square of the distance between two points
SquaredDistance(a, b) ==
    (a[1] - b[1]) * (a[1] - b[1]) + (a[2] - b[2]) * (a[2] - b[2])

SolveExact ==
    /\ last.ev = "init"
    /\ \E target \in Grid, p1 \in Grid, p2 \in Grid, p3 \in Grid :
         /\ Denominator(p1, p2, p3) # 0
         /\ LET position == trilateration_math(p1, p2, p3,
                                sqrt_of(SquaredDistance(target, p1)),
                                sqrt_of(SquaredDistance(target, p2)),
                                sqrt_of(SquaredDistance(target, p3)))
            IN  out' = [Quiet EXCEPT !.solved = TRUE, !.position = position]
         /\ received' = [kind |-> "solve", target |-> target,
                         anchors |-> <<p1, p2, p3>>]
    /\ last' = [ev |-> "trilaterate", topic |-> <<>>, payload |-> "none"]
    /\ UNCHANGED <<config, publish_fault, csi_buffer, buffer_keys, nodes,
                   subscriptions, sent, nEvents, nMalformed, nControl, threads>>

NextExact == SolveExact

SpecExact == Init /\ [][NextExact]_vars

\* the coordinate is the finite number v
Exactly(c, v) == c.k = "fin" /\ c.num = v * c.den

(***************************************************************************)
(* C24: for every target point and every three non-collinear anchors of    *)
(* the grid, the solve on the exact distances from the target to the       *)
(* anchors (it uses only their squares) returns exactly the target.        *)
(***************************************************************************)
C24_ExactSolveReturnsTarget ==
    received.kind = "solve"
        => /\ ~out.position.none
           /\ Exactly(out.position.x, received.target[1])
           /\ Exactly(out.position.y, received.target[2])

\* a solve whose target is none of the anchors and whose distances are not
\* whole numbers
C24_Witness ==
    /\ received.kind = "solve"
    /\ received.target = <<1, 2>>
    /\ received.anchors = << <<0, 0>>, <<3, 1>>, <<2, 3>> >>
    /\ out.position.x.k = "fin"

(***************************************************************************)
(* C26: a data message dropped because a required field is missing leaves  *)
(* the set of nodes that have a buffer unchanged: no buffer, not even an   *)
(* empty one, is created for its node.                                     *)
(***************************************************************************)
C26_DroppedCreatesNoBuffer ==
    [][ (LastMalformed' /\ last'.payload = "partial")
            => buffer_keys' = buffer_keys ]_vars

(***************************************************************************)
(* An eighth environment: the four registered nodes of the installation    *)
(* "site" report a few times each, and one message lacks a key.            *)
(***************************************************************************)
\* data messages per node
MaxTurns == 2

OrderData ==
    /\ \E node_mac \in Registered :
         /\ sent[node_mac] < MaxTurns
         /\ on_message(Topic(node_mac, "data"),
                       Object(DataObject(sent[node_mac] + 1, Num(0 - 40))))
         /\ sent' = [sent EXCEPT ![node_mac] = @ + 1]
    /\ nEvents' = nEvents + 1
    /\ UNCHANGED <<nMalformed, nControl, received, threads>>

OrderMalformed ==
    /\ nMalformed < MaxMalformed
    /\ \E node_mac \in Registered :
         /\ sent[node_mac] < MaxTurns
         /\ on_message(Topic(node_mac, "data"),
                       Object(Without(DataObject(sent[node_mac] + 1, Num(0 - 40)),
                                      "rssi")))
         /\ sent' = [sent EXCEPT ![node_mac] = @ + 1]
    /\ nEvents' = nEvents + 1
    /\ nMalformed' = nMalformed + 1
    /\ UNCHANGED <<nControl, received, threads>>

NextOrder == OrderData \/ OrderMalformed

SpecOrder == Init /\ [][NextOrder]_vars

\* the members of a sequence
Members(s) == {s[i] : i \in 1..Len(s)}

(***************************************************************************)
(* C25: once READY, the set of three nodes the solve uses is the same in   *)
(* every later cycle, whatever arrives: no step taken in READY changes the *)
(* set of the first three qualifying nodes, and a solve of that step uses  *)
(* exactly that set.                                                       *)
(***************************************************************************)
C25_SameThreeOnceReady ==
    [][ READY => /\ Members(FirstThree') = Members(FirstThree)
                 /\ out'.solved => Members(out'.used) = Members(FirstThree) ]_vars

(***************************************************************************)
(* A ninth environment: n2 and n3 report once, then n1 keeps reporting     *)
(* until its buffer has evicted entries; each of its messages runs a       *)
(* cycle, and its signal strength changes in the messages around the one   *)
(* that fills the buffer.                                                  *)
(***************************************************************************)
EvictData ==
    /\ \E node_mac \in {"n1", "n2", "n3"} :
         /\ IF node_mac = "n1"
            THEN sent["n1"] < MaxAppends /\ sent["n2"] = 1 /\ sent["n3"] = 1
            ELSE sent[node_mac] < 1
         /\ \E r \in (IF node_mac = "n1" /\ sent["n1"] + 2 >= maxlen
                      THEN RssiValues ELSE {0 - 40}) :
                on_message(Topic(node_mac, "data"),
                           Object(DataObject(sent[node_mac] + 1, Num(r))))
         /\ sent' = [sent EXCEPT ![node_mac] = @ + 1]
    /\ nEvents' = nEvents + 1
    /\ UNCHANGED <<nMalformed, nControl, received, threads>>

NextEvict == EvictData

SpecEvict == Init /\ [][NextEvict]_vars

\* the distance the last cycle estimated for a node
RECURSIVE EstimateOf(_, _)
EstimateOf(items, node_mac) ==
    IF items = <<>> THEN [nan |-> TRUE, v |-> 0]
    ELSE IF Head(items).node = node_mac THEN Head(items).d
    ELSE EstimateOf(Tail(items), node_mac)

(***************************************************************************)
(* C27: the measurement of a data message is appended to its node's buffer *)
(* before the cycle the message triggers: when that cycle estimates the    *)
(* node's distance, the new measurement is the newest entry of the buffer, *)
(* the entry it evicted is gone, and the estimate is the one of the recent *)
(* window of the buffer with the new measurement in it.                    *)
(***************************************************************************)
C27_AppendBeforeSolve ==
    [][ (/\ nEvents' # nEvents /\ LastData' /\ last'.payload = "data"
         /\ last'.topic[3] \in Estimated')
        => /\ TriggerBuffered'
           /\ Len(csi_buffer[last'.topic[3]]) = maxlen
                 => /\ Len(csi_buffer'[last'.topic[3]]) = maxlen
                    /\ csi_buffer'[last'.topic[3]][1]
                           = csi_buffer[last'.topic[3]][2]
           /\ EstimateOf(out'.distances, last'.topic[3])
                 = WindowDistance(csi_buffer'[last'.topic[3]]) ]_vars

\* a message of n1 evicted the oldest entry of its full buffer and ran a
\* cycle; its signal strength differs from the one that left the recent
\* window
C27_Witness ==
    /\ LastData /\ last.topic[3] = "n1" /\ "n1" \in Estimated
    /\ sent["n1"] = maxlen + 1 /\ Len(csi_buffer["n1"]) = maxlen
    /\ csi_buffer["n1"][maxlen].rssi = Num(0 - 30)
    /\ csi_buffer["n1"][maxlen - RecentWindow].rssi = Num(0 - 40)

\* the nodes selected for the solve (with fewer than three qualifying nodes
\* nothing is solved and every one of them counts as selected)
Selected == IF READY THEN Members(FirstThree) ELSE Qualifying

\* a buffer with the signal strength of every entry replaced by x
Reporting(buffer, x) == [i \in 1..Len(buffer) |-> [buffer[i] EXCEPT !.rssi = x]]

\* every entry of the buffer has a numeric signal strength
AllNumeric(buffer) == \A i \in 1..Len(buffer) : IsNumeric(buffer[i])

\* the buffers of the run in which the registered nodes that are not
\* selected and have numeric readings reported v instead, and the nodes
\* without a position reported u instead; everything else is the same
OtherRun(v, u) ==
    [n \in Nodes |->
        IF n \in Selected THEN csi_buffer[n]
        ELSE IF n \in Registered
             THEN (IF AllNumeric(csi_buffer[n]) THEN Reporting(csi_buffer[n], v)
                   ELSE csi_buffer[n])
             ELSE Reporting(csi_buffer[n], u)]

\* the last handler ran a cycle on the buffers as they are
CycleRan ==
    LastBuffered /\ Len(buffer_keys) >= Quorum

(***************************************************************************)
(* C28: nodes that are not selected for the solve do not interfere: the    *)
(* cycle of the run that differs only in the signal strengths reported by  *)
(* registered nodes outside the selected three (numeric readings) and by   *)
(* nodes without a position (any readings) publishes the same records,     *)
(* with the same x and y.                                                  *)
(***************************************************************************)
C28_UnselectedDoNotInterfere ==
    CycleRan =>
        \A v \in {Num(r) : r \in RssiValues},
           u \in {Num(r) : r \in RssiValues} \cup {Null} :
            calculate_position(buffer_keys, OtherRun(v, u), now).published
                = out.published

\* a cycle published while a fourth registered node, outside the selected
\* three, held measurements
C28_Witness ==
    /\ CycleRan /\ PositionPublished
    /\ \E n \in Registered \ Selected : Len(csi_buffer[n]) > 0

\* the last event was a message whose topic has fewer than 4 segments or
\* whose kind is neither data nor stats
LastOther ==
    /\ last.ev = "message"
    /\ Len(last.topic) < MinTopicParts \/ last.topic[4] \notin {"data", "stats"}

(***************************************************************************)
(* C29: a message whose topic has fewer than 4 segments, or whose kind is  *)
(* neither data nor stats, changes no buffer, no buffer key and no node    *)
(* stats and publishes nothing, whatever its payload.                      *)
(***************************************************************************)
C29_OtherTopicsChangeNothing ==
    [][ (nEvents' # nEvents /\ LastOther')
        => /\ csi_buffer' = csi_buffer
           /\ buffer_keys' = buffer_keys
           /\ nodes' = nodes
           /\ out'.published = <<>> /\ ~out'.solved ]_vars

\* a topic with an unknown kind and a well-formed data payload was handled
\* in READY, where the same payload on the data channel runs a cycle
C29_Witness ==
    /\ LastOther /\ Len(last.topic) >= MinTopicParts
    /\ last.payload = "data" /\ READY

(***************************************************************************)
(* A tenth environment: two nodes send stats objects that carry or lack    *)
(* each of the three fields.                                               *)
(***************************************************************************)
\* stats messages received
MaxStats == 2

StatsReport ==
    /\ nControl < MaxStats
    /\ \E node_mac \in BufferNodes,
          p \in {Absent, Num(7), Num(8)},
          e \in {Absent, Bool(TRUE)},
          u \in {Absent, Num(9)} :
         LET payload == Object(StatsObject(p, e, u))
         IN  /\ on_message(Topic(node_mac, "stats"), payload)
             /\ received' = [kind |-> "stats", payload |-> payload]
    /\ nEvents' = nEvents + 1
    /\ nControl' = nControl + 1
    /\ UNCHANGED <<sent, nMalformed, threads>>

NextStats == StatsReport

SpecStats == Init /\ [][NextStats]_vars

\* the value a record takes for a field of a message
FieldOr(o, f, default) == IF o[f] = Absent THEN default ELSE o[f]

(***************************************************************************)
(* C30: after a stats message carrying an object, the stats record of its  *)
(* node is determined by the message alone: packets, enabled and uptime    *)
(* are the message's fields, a field absent from the message is 0, false,  *)
(* 0 whatever the record held before, and the record of every other node   *)
(* is unchanged.                                                           *)
(***************************************************************************)
C30_StatsRecordFromMessageAlone ==
    [][ (nEvents' # nEvents /\ LastStats' /\ received'.kind = "stats")
        => /\ nodes'[last'.topic[3]].present
           /\ nodes'[last'.topic[3]].packets
                  = FieldOr(received'.payload.obj, "packets", Num(0))
           /\ nodes'[last'.topic[3]].enabled
                  = FieldOr(received'.payload.obj, "enabled", Bool(FALSE))
           /\ nodes'[last'.topic[3]].uptime
                  = FieldOr(received'.payload.obj, "uptime", Num(0))
           /\ \A n \in Nodes \ {last'.topic[3]} : nodes'[n] = nodes[n] ]_vars

\* the second stats message of a node lacked the enabled flag and the
\* uptime: the record holds the defaults, the other node's record stands
C30_Witness ==
    /\ LastStats /\ received.kind = "stats" /\ nControl = 2
    /\ last.topic[3] = "n1"
    /\ received.payload.obj["enabled"] = Absent
    /\ received.payload.obj["uptime"] = Absent
    /\ nodes["n1"].enabled = Bool(FALSE) /\ nodes["n1"].uptime = Num(0)
    /\ nodes["n1"].packets = Num(8)
    /\ nodes["n5"].present /\ nodes["n5"].enabled = Bool(TRUE)

(***************************************************************************)
(* An eleventh environment: the transport calls on_message for well-formed *)
(* data messages on two threads at once.  The code takes no lock, so the   *)
(* threads interleave between the append of process_csi_data, its test of  *)
(* the number of buffers, each iteration of calculate_position's loop over *)
(* the buffers, and the solve.                                             *)
(***************************************************************************)
\* data messages received
MaxIngest == 5

\* the buffer a thread's loop copied for a node
RECURSIVE SeenBuffer(_, _)
SeenBuffer(seen, node_mac) ==
    IF seen = <<>> THEN <<>>
    ELSE IF Head(seen).node = node_mac THEN Head(seen).buffer
    ELSE SeenBuffer(Tail(seen), node_mac)

\* self.csi_buffer[node_mac].append({...}) of process_csi_data
Ingest(t) ==
    /\ threads[t].pc = "idle"
    /\ nEvents < MaxIngest
    /\ \E node_mac \in {"n1", "n2", "n3"} :
         LET data  == Object(DataObject(sent[node_mac] + 1, Num(0 - 40)))
             keys1 == defaultdict_get(buffer_keys, node_mac)
             bufs1 == [csi_buffer EXCEPT
                          ![node_mac] = deque_append(@, measurement_of(data).m)]
         IN  /\ buffer_keys' = keys1
             /\ csi_buffer' = bufs1
             /\ sent' = [sent EXCEPT ![node_mac] = @ + 1]
             /\ last' = [ev |-> "message", topic |-> Topic(node_mac, "data"),
                         payload |-> payload_class(data)]
             /\ threads' = [o \in Threads |->
                   IF o = t THEN [Idle EXCEPT !.pc = "gate", !.node_mac = node_mac]
                   ELSE IF threads[o].pc \in {"loop", "solve"}
                        THEN [threads[o] EXCEPT !.instants = @ \cup {bufs1}]
                        ELSE threads[o]]
    /\ nEvents' = nEvents + 1
    /\ out' = Quiet
    /\ UNCHANGED <<config, publish_fault, nodes, subscriptions, nMalformed,
                   nControl, received>>

\* if len(self.csi_buffer) >= 3: self.calculate_position(), up to the call
\* of self.csi_buffer.items()
Gate(t) ==
    /\ threads[t].pc = "gate"
    /\ threads' = [threads EXCEPT ![t] =
          IF Len(buffer_keys) >= Quorum
          THEN [@ EXCEPT !.pc = "loop", !.size = Len(buffer_keys), !.idx = 1,
                         !.instants = {csi_buffer}]
          ELSE Idle]
    /\ UNCHANGED <<config, publish_fault, csi_buffer, buffer_keys, nodes,
                   subscriptions, sent, nEvents, nMalformed, nControl, last, out,
                   received>>

\* one step of for node_mac, buffer in self.csi_buffer.items(): the iterator
\* raises RuntimeError when the dict has changed size, ends after the last
\* key, and otherwise the body copies the buffer (list(buffer))
Read(t) ==
    /\ threads[t].pc = "loop"
    /\ IF Len(buffer_keys) # threads[t].size
       THEN /\ threads' = [threads EXCEPT ![t] = Idle]
            /\ out' = [Quiet EXCEPT !.log = <<"calculate_position">>]
       ELSE IF threads[t].idx > threads[t].size
       THEN /\ threads' = [threads EXCEPT ![t].pc = "solve"]
            /\ UNCHANGED out
       ELSE /\ threads' = [threads EXCEPT
                  ![t].seen = Append(@, [node |-> buffer_keys[threads[t].idx],
                                         buffer |-> csi_buffer[buffer_keys[threads[t].idx]]]),
                  ![t].idx = @ + 1]
            /\ UNCHANGED out
    /\ UNCHANGED <<config, publish_fault, csi_buffer, buffer_keys, nodes,
                   subscriptions, sent, nEvents, nMalformed, nControl, last,
                   received>>

\* the rest of calculate_position on what the loop copied: the distances,
\* trilaterate and publish_position
SolveSeen(t) ==
    /\ threads[t].pc = "solve"
    /\ out' = calculate_position(
                  [i \in 1..Len(threads[t].seen) |-> threads[t].seen[i].node],
                  [n \in Nodes |-> SeenBuffer(threads[t].seen, n)], now)
              @@ [escaped |-> FALSE]
    /\ threads' = [threads EXCEPT ![t] = Idle]
    /\ UNCHANGED <<config, publish_fault, csi_buffer, buffer_keys, nodes,
                   subscriptions, sent, nEvents, nMalformed, nControl, last,
                   received>>

NextConcurrent ==
    \E t \in Threads : Ingest(t) \/ Gate(t) \/ Read(t) \/ SolveSeen(t)

SpecConcurrent == Init /\ [][NextConcurrent]_vars

\* the thread is in its read-then-solve sequence
Solving(t) == threads[t].pc \in {"loop", "solve"}

\* the buffers the thread's loop copied all stood in self.csi_buffer at one
\* instant of the loop
SeenWhole(t) ==
    \E b \in threads[t].instants :
        \A i \in 1..Len(threads[t].seen) :
            b[threads[t].seen[i].node] = threads[t].seen[i].buffer

(***************************************************************************)
(* C21: when the transport calls the handler concurrently, "ingest a       *)
(* measurement" and "attempt a solve" exclude each other: no step appends  *)
(* to a buffer while a thread is in its read-then-solve sequence, and      *)
(* every solve computes over buffers that stood as a whole at one instant. *)
(***************************************************************************)
C21_IngestAndSolveExclusive ==
    [][ /\ (\E t \in Threads : Solving(t))
            => (csi_buffer' = csi_buffer /\ buffer_keys' = buffer_keys)
        /\ \A t \in Threads : threads'[t].pc = "solve" => SeenWhole(t)' ]_vars

====
